---- MODULE Spec2Model ----
(***************************************************************************)
(* Model of the instanced vector renderer of clogs (src/src/render.rs):    *)
(* the mesh registry (Render.draw_calls), the lazily created GPU bindings, *)
(* the per-mesh instance lists with their refresh flag, the camera and the *)
(* render pass, together with the Instance accessors and the f32           *)
(* arithmetic of the depth transform.                                      *)
(***************************************************************************)
EXTENDS Integers, Sequences, FiniteSets, TLC

(***************************************************************************)
(* Bounds of the model.                                                    *)
(***************************************************************************)
\* calls that change the registry, the instances or the camera: uploads that
\* return a handle, add_instance and the setters
MaxCalls == 4

(***************************************************************************)
(* f32.  A non-negative finite f32 is [m, e] with value m * 2^e, where m   *)
(* is the 24-bit significand (2^23 <= m < 2^24) or m = 0, e = 0 for 0.0.   *)
(* Only normal, non-negative values occur: every f32 of the model is a     *)
(* small integer or comes out of the depth transform.                      *)
(***************************************************************************)
MantBits == 24

Pow2(n) == 2 ^ n

F32Zero == [m |-> 0, e |-> 0]

RECURSIVE Normalize(_, _)
\* shift an exactly representable m * 2^e (0 < m < 2^24) into normal form
Normalize(m, e) ==
    IF m = 0 THEN F32Zero
    ELSE IF m < Pow2(MantBits - 1) THEN Normalize(2 * m, e - 1)
    ELSE [m |-> m, e |-> e]

\* `n as f32` for an integer 0 <= n < 2^24 (exact)
IntToF32(n) == Normalize(n, 0)

\* round to nearest, ties to even: q is the truncated significand, rem the
\* discarded part out of unit (0 <= rem < unit)
RoundNearestEven(q, rem, unit, e) ==
    LET up == (2 * rem > unit) \/ (2 * rem = unit /\ q % 2 = 1)
        q1 == IF up THEN q + 1 ELSE q
    IN  IF q1 = Pow2(MantBits) THEN [m |-> Pow2(MantBits - 1), e |-> e + 1]
        ELSE [m |-> q1, e |-> e]

RECURSIVE DivBits(_, _, _, _)
\* binary long division: n more quotient bits of r / d (r < d), as <<q, r>>
DivBits(r, d, q, n) ==
    IF n = 0 THEN <<q, r>>
    ELSE IF 2 * r >= d THEN DivBits(2 * r - d, d, 2 * q + 1, n - 1)
    ELSE DivBits(2 * r, d, 2 * q, n - 1)

\* a / b in f32 (IEEE 754 binary32 division, round to nearest even), b # 0
F32Div(a, b) ==
    IF a.m = 0 THEN F32Zero
    ELSE IF a.m >= b.m
         THEN LET qr == DivBits(a.m - b.m, b.m, 1, MantBits - 1)
              IN  RoundNearestEven(qr[1], qr[2], b.m, a.e - b.e - (MantBits - 1))
         ELSE LET qr == DivBits(a.m, b.m, 0, MantBits)
              IN  RoundNearestEven(qr[1], qr[2], b.m, a.e - b.e - MantBits)

\* a * b in f32 (round to nearest even); the 48-bit product of the
\* significands is formed from 12-bit halves
F32Mul(a, b) ==
    IF a.m = 0 \/ b.m = 0 THEN F32Zero
    ELSE LET h  == Pow2(12)
             a1 == a.m \div h
             a0 == a.m % h
             b1 == b.m \div h
             b0 == b.m % h
             lo == a0 * b0
             s1 == a1 * b0 + a0 * b1 + (lo \div h)
             hi == a1 * b1 + (s1 \div h)
             low24 == (s1 % h) * h + (lo % h)
         IN  IF hi >= Pow2(MantBits - 1)
             THEN RoundNearestEven(hi, low24, Pow2(24), a.e + b.e + 24)
             ELSE RoundNearestEven(2 * hi + (low24 \div Pow2(23)), low24 % Pow2(23),
                                   Pow2(23), a.e + b.e + 23)

\* `x as u8`: truncation toward zero, saturating at u8::MAX
F32ToU8(x) ==
    IF x.m = 0 \/ x.e <= -MantBits THEN 0
    ELSE IF x.e >= 0 THEN 255
    ELSE LET t == x.m \div Pow2(-x.e) IN IF t > 255 THEN 255 ELSE t

\* a <= b on non-negative f32
F32Le(a, b) ==
    \/ a.m = 0
    \/ /\ b.m # 0
       /\ \/ a.e < b.e
          \/ a.e = b.e /\ a.m <= b.m

(***************************************************************************)
(* Program constants.                                                      *)
(***************************************************************************)
MAX_MESH_INSTANCES == 1024 * 1024

U8_MAX == 255

\* mem::size_of::<Instance>(): nine f32 fields, repr(C)
SizeOfInstance == 9 * 4

\* ctx.screen_size(): the window dimensions Clog starts with
ScreenWidth == 800
ScreenHeight == 800

F32One == IntToF32(1)

F32_255 == IntToF32(255)

(***************************************************************************)
(* Option<T>                                                               *)
(***************************************************************************)
None == [tag |-> "None"]

Some(v) == [tag |-> "Some", val |-> v]

(***************************************************************************)
(* Instance.                                                               *)
(***************************************************************************)
InstanceNewSwapped(px, py) ==
    [position |-> <<py, px, F32Zero>>, rotation |-> F32Zero, scale |-> F32One,
     color |-> <<F32One, F32One, F32One>>, alpha |-> F32One]

InstanceNew(px, py) ==
    [position |-> <<px, py, F32Zero>>, rotation |-> F32Zero, scale |-> F32One,
     color |-> <<F32One, F32One, F32One>>, alpha |-> F32One]

Instance_set_x(self, new) == [self EXCEPT !.position[1] = new]

Instance_x(self) == self.position[1]

Instance_set_y_first(self, new) == [self EXCEPT !.position[1] = new]

Instance_set_y(self, new) == [self EXCEPT !.position[2] = new]

Instance_y(self) == self.position[2]

Instance_set_z_256(self, new) ==
    [self EXCEPT !.position[3] = F32Div(IntToF32(U8_MAX - new), IntToF32(256))]

Instance_set_z(self, new) ==
    [self EXCEPT !.position[3] = F32Div(IntToF32(U8_MAX - new), F32_255)]

Instance_z_raw(self) == F32ToU8(F32Mul(self.position[3], F32_255))

Instance_z(self) == U8_MAX - F32ToU8(F32Mul(self.position[3], F32_255))

Instance_set_scale(self, scale) == [self EXCEPT !.scale = scale]

Instance_scale(self) == self.scale

Instance_set_rotation(self, rotation) == [self EXCEPT !.rotation = rotation]

Instance_rotation(self) == self.rotation

Instance_set_color_multiplier(self, r, g, b) == [self EXCEPT !.color = <<r, g, b>>]

Instance_color_multiplier(self) == <<self.color[1], self.color[2], self.color[3]>>

(***************************************************************************)
(* Geometry.                                                               *)
(***************************************************************************)
\* VertexCtor::new
VertexCtorNew(color, alpha) ==
    [color |-> <<F32Div(IntToF32(color.red), F32_255),
                 F32Div(IntToF32(color.green), F32_255),
                 F32Div(IntToF32(color.blue), F32_255),
                 alpha>>]

\* FillVertexConstructor::new_vertex
new_vertex(ctor, position) == [pos |-> position, color |-> ctor.color]

Pt(px, py) == <<IntToF32(px), IntToF32(py)>>

\* the paths handed to upload_path
Paths == {"triangle", "degenerate"}

Colors == {[red |-> 255, green |-> 0, blue |-> 0]}

Opacities == {F32One}

\* FillTessellator::tessellate on the paths above: the fill of the triangle
\* is its three corners and one triangle; the degenerate path is an Err
Tessellate(path, ctor) ==
    IF path = "triangle"
    THEN [ok |-> TRUE,
          vertices |-> <<new_vertex(ctor, Pt(0, 0)), new_vertex(ctor, Pt(1, 0)),
                         new_vertex(ctor, Pt(0, 1))>>,
          indices |-> <<0, 1, 2>>]
    ELSE [ok |-> FALSE, vertices |-> <<>>, indices |-> <<>>]

White == <<F32One, F32One, F32One, F32One>>

\* the VertexBuffers handed to upload_buffers: a quad, and three vertices
\* with an index past them
Geometries ==
    {[vertices |-> <<[pos |-> Pt(0, 0), color |-> White], [pos |-> Pt(1, 0), color |-> White],
                     [pos |-> Pt(1, 1), color |-> White], [pos |-> Pt(0, 1), color |-> White]>>,
      indices |-> <<0, 1, 2, 0, 2, 3>>],
     [vertices |-> <<[pos |-> Pt(0, 0), color |-> White], [pos |-> Pt(1, 0), color |-> White],
                     [pos |-> Pt(0, 1), color |-> White]>>,
      indices |-> <<0, 1, 3>>]}

\* the arguments of the instance and camera calls
XYArgs == {<<IntToF32(10), IntToF32(20)>>}

SetArgs == {IntToF32(7)}

ZArgs == {100}

ColorArgs == {<<F32Zero, F32One, F32Zero>>}

PanArgs == {<<IntToF32(5), IntToF32(3)>>}

ZoomArgs == {IntToF32(2)}

(***************************************************************************)
(* State.                                                                  *)
(***************************************************************************)
VARIABLES
    draw_calls,        \* Render.draw_calls: Seq of DrawCall
    missing_bindings,  \* Render.missing_bindings
    camera_pan,        \* Render.camera_pan
    camera_zoom,       \* Render.camera_zoom
    buffers,           \* the buffers of the miniquad Context, by id
    ctx_calls,         \* the Context calls made by the last operation
    status,            \* "running", or "panicked" once a call has panicked
    last,              \* the last call: its name, arguments and return value
    uploads,           \* every upload that returned: its handle and geometry
    ncalls             \* number of calls counted by MaxCalls so far

vars == <<draw_calls, missing_bindings, camera_pan, camera_zoom, buffers,
          ctx_calls, status, last, uploads, ncalls>>

Call(op, mesh, idx, args, ret) ==
    [op |-> op, mesh |-> mesh, idx |-> idx, args |-> args, ret |-> ret]

CtxCall(call, mesh, arg) == [call |-> call, mesh |-> mesh, arg |-> arg]

\* the draw call a Mesh(h) names
Entry(dcs, h) == dcs[h + 1]

\* Render::new
Init ==
    /\ draw_calls = <<>>
    /\ missing_bindings = FALSE
    /\ camera_pan = <<F32Zero, F32Zero>>
    /\ camera_zoom = F32One
    /\ buffers = <<>>
    /\ ctx_calls = <<>>
    /\ status = "running"
    /\ last = Call("new", -1, -1, <<>>, <<>>)
    /\ uploads = <<>>
    /\ ncalls = 0

(***************************************************************************)
(* Uploads.                                                                *)
(***************************************************************************)
\* the DrawCall literal of upload_path and upload_buffers
NewDrawCallDirty(vertices, indices) ==
    [vertices |-> vertices, indices |-> indices, bindings |-> None,
     instances |-> <<>>, refresh_instances |-> TRUE]

NewDrawCall(vertices, indices) ==
    [vertices |-> vertices, indices |-> indices, bindings |-> None,
     instances |-> <<>>, refresh_instances |-> FALSE]

PushFront(dcs, dc) == <<dc>> \o dcs

\* self.draw_calls.push(draw_call)
Push(dcs, dc) == Append(dcs, dc)

MeshOfLen(dcs) == Len(dcs)

\* Mesh(self.draw_calls.len() - 1)
MeshOf(dcs) == Len(dcs) - 1

\* an upload that pushes the entry and leaves the flag as it is
RegisterNoFlag(op, vertices, indices) ==
    LET dcs == Push(draw_calls, NewDrawCall(vertices, indices))
        h   == MeshOf(dcs)
    IN  /\ draw_calls' = dcs
        /\ last' = Call(op, -1, -1, <<>>, h)
        /\ uploads' = Append(uploads, [ret |-> h, vertices |-> vertices, indices |-> indices])
        /\ ncalls' = ncalls + 1
        /\ ctx_calls' = <<>>
        /\ UNCHANGED <<missing_bindings, camera_pan, camera_zoom, buffers, status>>

\* the common tail of both uploads: push, flag, handle
Register(op, vertices, indices) ==
    LET dcs == Push(draw_calls, NewDrawCall(vertices, indices))
        h   == MeshOf(dcs)
    IN  /\ draw_calls' = dcs
        /\ missing_bindings' = TRUE
        /\ last' = Call(op, -1, -1, <<>>, h)
        /\ uploads' = Append(uploads, [ret |-> h, vertices |-> vertices, indices |-> indices])
        /\ ncalls' = ncalls + 1
        /\ ctx_calls' = <<>>
        /\ UNCHANGED <<camera_pan, camera_zoom, buffers, status>>

UploadPath(path, color, opacity) ==
    /\ status = "running"
    /\ LET t == Tessellate(path, VertexCtorNew(color, opacity))
       IN  IF t.ok
           THEN /\ ncalls < MaxCalls
                /\ Register("upload_path", t.vertices, t.indices)
           ELSE \* .unwrap() of the Err
                /\ status' = "panicked"
                /\ last' = Call("upload_path", -1, -1, <<>>, "panic")
                /\ ctx_calls' = <<>>
                /\ UNCHANGED <<draw_calls, missing_bindings, camera_pan, camera_zoom,
                               buffers, uploads, ncalls>>

UploadBuffers(geometry) ==
    /\ status = "running"
    /\ ncalls < MaxCalls
    /\ Register("upload_buffers", geometry.vertices, geometry.indices)

(***************************************************************************)
(* Render.                                                                 *)
(***************************************************************************)
\* DrawCall::create_bindings for the draw call of handle h: two immutable
\* buffers and the stream buffer of the instances, appended to the buffers
\* of the Context; r is [dcs, bufs, calls]
create_bindings(r, h) ==
    LET dc   == Entry(r.dcs, h)
        vb   == Len(r.bufs) + 1
        ib   == Len(r.bufs) + 2
        inst == Len(r.bufs) + 3
        size == MAX_MESH_INSTANCES * SizeOfInstance
        bindings == [vertex_buffers |-> <<vb, inst>>, index_buffer |-> ib, images |-> <<>>]
    IN  [dcs   |-> [r.dcs EXCEPT ![h + 1].bindings = Some(bindings)],
         bufs  |-> r.bufs \o
                   <<[type |-> "VertexBuffer", usage |-> "Immutable", data |-> dc.vertices],
                     [type |-> "IndexBuffer", usage |-> "Immutable", data |-> dc.indices],
                     [type |-> "VertexBuffer", usage |-> "Stream", size |-> size, data |-> <<>>]>>,
         calls |-> r.calls \o
                   <<CtxCall("Buffer::immutable", h, vb), CtxCall("Buffer::immutable", h, ib),
                     CtxCall("Buffer::stream", h, inst)>>]

BindAlways(r, h) == create_bindings(r, h)

BindIfUsed(r, h) ==
    IF Entry(r.dcs, h).bindings = None /\ Entry(r.dcs, h).instances # <<>>
    THEN create_bindings(r, h) ELSE r

\* if dc.bindings.is_none() { dc.create_bindings(ctx) }
BindIfMissing(r, h) ==
    IF Entry(r.dcs, h).bindings = None THEN create_bindings(r, h) ELSE r

RECURSIVE BindAll(_, _)
\* self.draw_calls.iter_mut().for_each(..), from handle h on
BindAll(r, h) ==
    IF h >= Len(r.dcs) THEN r ELSE BindAll(BindIfMissing(r, h), h + 1)

SkipNever(dc) == FALSE

\* if dc.instances.is_empty() { continue; }
Skip(dc) == dc.instances = <<>>

KeepRefresh(dc) == dc

\* dc.refresh_instances = false
ClearRefresh(dc) == [dc EXCEPT !.refresh_instances = FALSE]

\* the Uniforms of apply_uniforms
Uniforms(zoom, pan, width, height) ==
    [zoom |-> <<F32Div(zoom, IntToF32(width)), F32Div(zoom, IntToF32(height))>>,
     pan  |-> <<pan[1], pan[2]>>]

\* one iteration of the draw loop for the draw call of handle h that has
\* instances and bindings; r is [dcs, bufs, calls, panicked]
DrawOne(r, h, zoom, pan) ==
    LET dc       == Entry(r.dcs, h)
        bindings == dc.bindings.val
        inst     == bindings.vertex_buffers[2]
        bufs     == IF dc.refresh_instances
                    THEN [r.bufs EXCEPT ![inst].data = dc.instances]
                    ELSE r.bufs
        upd      == IF dc.refresh_instances
                    THEN <<CtxCall("Buffer::update", h, [buffer |-> inst, data |-> dc.instances])>>
                    ELSE <<>>
        dcs      == IF dc.refresh_instances
                    THEN [r.dcs EXCEPT ![h + 1] = ClearRefresh(dc)]
                    ELSE r.dcs
    IN  [dcs   |-> dcs,
         bufs  |-> bufs,
         calls |-> r.calls \o upd \o
                   <<CtxCall("apply_pipeline", h, <<>>),
                     CtxCall("apply_scissor_rect", h, <<0, 0, ScreenWidth, ScreenHeight>>),
                     CtxCall("apply_bindings", h, [bindings |-> bindings,
                                                  instance_data |-> bufs[inst].data]),
                     CtxCall("apply_uniforms", h, Uniforms(zoom, pan, ScreenWidth, ScreenHeight)),
                     CtxCall("draw", h, [base_element |-> 0,
                                         num_elements |-> Len(dc.indices),
                                         num_instances |-> Len(dc.instances)])>>,
         panicked |-> FALSE]

RECURSIVE DrawAllRev(_, _, _, _)
RECURSIVE DrawAll(_, _, _, _)
\* the loop taken from the last entry to the first: the h-th step handles
\* the entry Len - 1 - h
DrawAllRev(r, h, zoom, pan) ==
    IF h >= Len(r.dcs) THEN r
    ELSE LET g  == Len(r.dcs) - 1 - h
             dc == Entry(r.dcs, g)
         IN  IF Skip(dc) THEN DrawAllRev(r, h + 1, zoom, pan)
             ELSE IF dc.bindings = None
                  THEN [r EXCEPT !.panicked = TRUE]
                  ELSE DrawAllRev(DrawOne(r, g, zoom, pan), h + 1, zoom, pan)

\* for dc in self.draw_calls.iter_mut() { .. }, from handle h on
DrawAll(r, h, zoom, pan) ==
    IF h >= Len(r.dcs) THEN r
    ELSE LET dc == Entry(r.dcs, h)
         IN  IF Skip(dc) THEN DrawAll(r, h + 1, zoom, pan)
             ELSE IF dc.bindings = None
                  THEN \* dc.bindings.as_ref().unwrap() of None
                       [r EXCEPT !.panicked = TRUE]
                  ELSE DrawAll(DrawOne(r, h, zoom, pan), h + 1, zoom, pan)

\* Render::render
Render ==
    /\ status = "running"
    /\ LET r0 == [dcs |-> draw_calls, bufs |-> buffers, calls |-> <<>>]
           r1 == IF missing_bindings THEN BindAll(r0, 0) ELSE r0
           r2 == [dcs |-> r1.dcs, bufs |-> r1.bufs,
                  calls |-> Append(r1.calls, CtxCall("begin_default_pass", -1, <<>>)),
                  panicked |-> FALSE]
           r3 == DrawAll(r2, 0, camera_zoom, camera_pan)
       IN  /\ draw_calls' = r3.dcs
           /\ buffers' = r3.bufs
           /\ missing_bindings' = FALSE
           /\ IF r3.panicked
              THEN /\ status' = "panicked"
                   /\ ctx_calls' = r3.calls
                   /\ last' = Call("render", -1, -1, <<>>, "panic")
              ELSE /\ status' = status
                   /\ ctx_calls' = r3.calls \o <<CtxCall("end_render_pass", -1, <<>>),
                                                 CtxCall("commit_frame", -1, <<>>)>>
                   /\ last' = Call("render", -1, -1, <<>>, "ok")
    /\ UNCHANGED <<camera_pan, camera_zoom, uploads, ncalls>>

(***************************************************************************)
(* Camera.                                                                 *)
(***************************************************************************)
\* a set_camera_pos that also puts the zoom back to 1
SetCameraPosResetZoom(px, py) ==
    /\ status = "running"
    /\ ncalls < MaxCalls
    /\ camera_pan' = <<px, py>>
    /\ camera_zoom' = F32One
    /\ last' = Call("set_camera_pos", -1, -1, <<px, py>>, <<>>)
    /\ ncalls' = ncalls + 1
    /\ ctx_calls' = <<>>
    /\ UNCHANGED <<draw_calls, missing_bindings, buffers, status, uploads>>

\* Render::set_camera_pos
SetCameraPos(px, py) ==
    /\ status = "running"
    /\ ncalls < MaxCalls
    /\ camera_pan' = <<px, py>>
    /\ last' = Call("set_camera_pos", -1, -1, <<px, py>>, <<>>)
    /\ ncalls' = ncalls + 1
    /\ ctx_calls' = <<>>
    /\ UNCHANGED <<draw_calls, missing_bindings, camera_zoom, buffers, status, uploads>>

\* Render::set_camera_zoom
SetCameraZoom(zoom) ==
    /\ status = "running"
    /\ ncalls < MaxCalls
    /\ camera_zoom' = zoom
    /\ last' = Call("set_camera_zoom", -1, -1, <<zoom>>, <<>>)
    /\ ncalls' = ncalls + 1
    /\ ctx_calls' = <<>>
    /\ UNCHANGED <<draw_calls, missing_bindings, camera_pan, buffers, status, uploads>>

(***************************************************************************)
(* Instances of a mesh, addressed by (Mesh, index).                        *)
(***************************************************************************)
\* add_instance(mesh, x, y): append Instance::new(x, y) to the instances of
\* the mesh, mark them for re-upload, return the index
AddInstance(h, px, py) ==
    /\ status = "running"
    /\ h \in 0..(Len(draw_calls) - 1)
    /\ ncalls < MaxCalls
    /\ LET dc == Entry(draw_calls, h)
       IN  /\ draw_calls' = [draw_calls EXCEPT ![h + 1] =
                                [dc EXCEPT !.instances = Append(dc.instances, InstanceNew(px, py)),
                                           !.refresh_instances = TRUE]]
           /\ last' = Call("add_instance", h, Len(dc.instances), <<px, py>>, Len(dc.instances))
    /\ ncalls' = ncalls + 1
    /\ ctx_calls' = <<>>
    /\ UNCHANGED <<missing_bindings, camera_pan, camera_zoom, buffers, status, uploads>>

\* instance i of mesh h exists
Valid(h, i) ==
    /\ h \in 0..(Len(draw_calls) - 1)
    /\ i \in 0..(Len(Entry(draw_calls, h).instances) - 1)

InstanceAt(dcs, h, i) == Entry(dcs, h).instances[i + 1]

\* a setter of Instance run on instance i of mesh h: the setter takes the
\* Instance alone and assigns the one field
ApplySetter(op, h, i, args, new) ==
    /\ status = "running"
    /\ Valid(h, i)
    /\ ncalls < MaxCalls
    /\ draw_calls' = [draw_calls EXCEPT ![h + 1].instances[i + 1] = new]
    /\ last' = Call(op, h, i, args, <<>>)
    /\ ncalls' = ncalls + 1
    /\ ctx_calls' = <<>>
    /\ UNCHANGED <<missing_bindings, camera_pan, camera_zoom, buffers, status, uploads>>

SetX(h, i, v) ==
    Valid(h, i) /\ ApplySetter("set_x", h, i, <<v>>, Instance_set_x(InstanceAt(draw_calls, h, i), v))

SetY(h, i, v) ==
    Valid(h, i) /\ ApplySetter("set_y", h, i, <<v>>, Instance_set_y(InstanceAt(draw_calls, h, i), v))

SetZ(h, i, v) ==
    Valid(h, i) /\ ApplySetter("set_z", h, i, <<v>>, Instance_set_z(InstanceAt(draw_calls, h, i), v))

SetScale(h, i, v) ==
    Valid(h, i) /\ ApplySetter("set_scale", h, i, <<v>>,
                               Instance_set_scale(InstanceAt(draw_calls, h, i), v))

SetRotation(h, i, v) ==
    Valid(h, i) /\ ApplySetter("set_rotation", h, i, <<v>>,
                               Instance_set_rotation(InstanceAt(draw_calls, h, i), v))

SetColorMultiplier(h, i, c) ==
    Valid(h, i) /\ ApplySetter("set_color_multiplier", h, i, c,
                               Instance_set_color_multiplier(InstanceAt(draw_calls, h, i),
                                                             c[1], c[2], c[3]))

\* a getter of Instance run on instance i of mesh h
ApplyGetter(op, h, i, ret) ==
    /\ status = "running"
    /\ Valid(h, i)
    /\ last' = Call(op, h, i, <<>>, ret)
    /\ ctx_calls' = <<>>
    /\ UNCHANGED <<draw_calls, missing_bindings, camera_pan, camera_zoom, buffers, status,
                   uploads, ncalls>>

GetX(h, i) == Valid(h, i) /\ ApplyGetter("x", h, i, Instance_x(InstanceAt(draw_calls, h, i)))

GetY(h, i) == Valid(h, i) /\ ApplyGetter("y", h, i, Instance_y(InstanceAt(draw_calls, h, i)))

GetZ(h, i) == Valid(h, i) /\ ApplyGetter("z", h, i, Instance_z(InstanceAt(draw_calls, h, i)))

(***************************************************************************)
(* Specification.                                                          *)
(***************************************************************************)
Handles == 0..(MaxCalls - 1)

Indexes == 0..(MaxCalls - 1)

Next ==
    \/ \E p \in Paths, c \in Colors, o \in Opacities : UploadPath(p, c, o)
    \/ \E g \in Geometries : UploadBuffers(g)
    \/ Render
    \/ \E p \in PanArgs : SetCameraPos(p[1], p[2])
    \/ \E z \in ZoomArgs : SetCameraZoom(z)
    \/ \E h \in Handles, a \in XYArgs : AddInstance(h, a[1], a[2])
    \/ \E h \in Handles, i \in Indexes, v \in SetArgs : SetX(h, i, v)
    \/ \E h \in Handles, i \in Indexes, v \in SetArgs : SetY(h, i, v)
    \/ \E h \in Handles, i \in Indexes, v \in ZArgs : SetZ(h, i, v)
    \/ \E h \in Handles, i \in Indexes, v \in SetArgs : SetScale(h, i, v)
    \/ \E h \in Handles, i \in Indexes, v \in SetArgs : SetRotation(h, i, v)
    \/ \E h \in Handles, i \in Indexes, c \in ColorArgs : SetColorMultiplier(h, i, c)

Spec == Init /\ [][Next]_vars

(***************************************************************************)
(* The accessors of one instance: the registry after                       *)
(* upload_buffers(quad); add_instance(Mesh(0), 10, 20), then set_z with    *)
(* every u8 and the getters of x, y and z.                                 *)
(***************************************************************************)
Quad == CHOOSE g \in Geometries : Len(g.vertices) = 4

InitInstance ==
    /\ draw_calls = <<[NewDrawCall(Quad.vertices, Quad.indices) EXCEPT
                          !.instances = <<InstanceNew(IntToF32(10), IntToF32(20))>>,
                          !.refresh_instances = TRUE]>>
    /\ missing_bindings = TRUE
    /\ camera_pan = <<F32Zero, F32Zero>>
    /\ camera_zoom = F32One
    /\ buffers = <<>>
    /\ ctx_calls = <<>>
    /\ status = "running"
    /\ last = Call("add_instance", 0, 0, <<IntToF32(10), IntToF32(20)>>, 0)
    /\ uploads = <<[ret |-> 0, vertices |-> Quad.vertices, indices |-> Quad.indices]>>
    /\ ncalls = 2

NextInstance ==
    \/ \E v \in 0..U8_MAX : SetZ(0, 0, v)
    \/ GetX(0, 0)
    \/ GetY(0, 0)
    \/ GetZ(0, 0)

SpecInstance == InitInstance /\ [][NextInstance]_vars

(***************************************************************************)
(* Properties.                                                             *)
(***************************************************************************)
Returned == status = "running"

IsUpload(c) == c.op \in {"upload_path", "upload_buffers"}

AllBound(dcs) == \A k \in 1..Len(dcs) : dcs[k].bindings # None

CallsOf(calls, name) == {k \in 1..Len(calls) : calls[k].call = name}

Creations(calls) == CallsOf(calls, "Buffer::immutable") \cup CallsOf(calls, "Buffer::stream")

WithInstances(dcs) == {h \in 0..(Len(dcs) - 1) : Entry(dcs, h).instances # <<>>}

\* C1: the k-th upload that returns, whichever of upload_path and
\* upload_buffers it is and whatever ran in between, returns Mesh(k - 1): the
\* first handle is 0, each later one is the previous plus one, and a handle
\* is the length the registry had before its upload.
C1_HandlesDense ==
    /\ Len(uploads) = Len(draw_calls)
    /\ \A k \in 1..Len(uploads) : uploads[k].ret = k - 1
    /\ (IsUpload(last) /\ Returned) => last.ret = Len(draw_calls) - 1

C1_Witness ==
    /\ Len(uploads) >= 2
    /\ last.op = "upload_path"
    /\ Returned
    /\ last.ret = 1
    /\ draw_calls[1].bindings # None

\* C2: every handle an upload returned stays below the registry length, no
\* two uploads returned the same handle, and the entry a handle names holds
\* the vertices and indices of that upload, after any later call.
C2_HandlesStable ==
    \A k \in 1..Len(uploads) :
        /\ uploads[k].ret \in 0..(Len(draw_calls) - 1)
        /\ \A j \in 1..Len(uploads) : j # k => uploads[j].ret # uploads[k].ret
        /\ Entry(draw_calls, uploads[k].ret).vertices = uploads[k].vertices
        /\ Entry(draw_calls, uploads[k].ret).indices = uploads[k].indices

C2_Witness ==
    /\ Len(uploads) >= 2
    /\ uploads[1].vertices # uploads[2].vertices
    /\ last.op = "render"
    /\ Returned
    /\ CallsOf(ctx_calls, "draw") # {}

\* C3: an upload that returns appends one entry with no instances, no
\* bindings and a false refresh flag, sets missing_bindings, and leaves the
\* entries that were there as they were.
C3_UploadAppends ==
    [][(IsUpload(last') /\ status' = "running") =>
          /\ Len(draw_calls') = Len(draw_calls) + 1
          /\ SubSeq(draw_calls', 1, Len(draw_calls)) = draw_calls
          /\ draw_calls'[Len(draw_calls')].instances = <<>>
          /\ draw_calls'[Len(draw_calls')].bindings = None
          /\ draw_calls'[Len(draw_calls')].refresh_instances = FALSE
          /\ missing_bindings' = TRUE]_vars

C3_Witness ==
    /\ last.op = "upload_buffers"
    /\ Returned
    /\ Len(draw_calls) >= 2
    /\ draw_calls[1].bindings # None
    /\ draw_calls[1].instances # <<>>

\* C4: when render has returned, every mesh of the registry has bindings,
\* also a mesh without instances and a mesh uploaded after the frame before,
\* and missing_bindings is false.
C4_RenderBindsAll ==
    (last.op = "render" /\ Returned) => (AllBound(draw_calls) /\ ~missing_bindings)

C4_Witness ==
    /\ last.op = "render"
    /\ Returned
    /\ Len(draw_calls) >= 2
    /\ \E h \in 0..(Len(draw_calls) - 1) :
          /\ Entry(draw_calls, h).instances = <<>>
          /\ \E k \in Creations(ctx_calls) : ctx_calls[k].mesh = h
    /\ \E h \in 0..(Len(draw_calls) - 1) :
          \A k \in Creations(ctx_calls) : ctx_calls[k].mesh # h

\* C5: bindings are created at most once per mesh: no step removes or
\* replaces the bindings an entry has, and the buffers render creates are
\* for entries that had no bindings when it was called (so a render with no
\* upload since the frame before, where every entry has bindings, creates
\* none).
C5_BindingsOnce ==
    [][/\ \A k \in 1..Len(draw_calls) :
             draw_calls[k].bindings # None =>
                 /\ k <= Len(draw_calls')
                 /\ draw_calls'[k].bindings = draw_calls[k].bindings
       /\ \A k \in Creations(ctx_calls') :
             /\ last'.op = "render"
             /\ Entry(draw_calls, ctx_calls'[k].mesh).bindings = None
       /\ (last'.op = "render" /\ AllBound(draw_calls)) => Len(buffers') = Len(buffers)]_vars

C5_Witness ==
    /\ last.op = "render"
    /\ Returned
    /\ Len(draw_calls) >= 2
    /\ AllBound(draw_calls)
    /\ Creations(ctx_calls) # {}
    /\ \E h \in 0..(Len(draw_calls) - 1) :
          /\ \A k \in Creations(ctx_calls) : ctx_calls[k].mesh # h
          /\ CallsOf(ctx_calls, "draw") # {}

\* C6: in a frame, a mesh without instances gets no draw call and no upload
\* of its instance buffer, and a mesh with instances gets exactly one draw
\* call, of as many instances as its list holds and as many elements as its
\* index buffer holds; the frame has as many draw calls as there are meshes
\* with instances.
C6_DrawCallsPerFrame ==
    (last.op = "render" /\ Returned) =>
        LET draws == CallsOf(ctx_calls, "draw")
        IN  /\ Cardinality(draws) = Cardinality(WithInstances(draw_calls))
            /\ \A h \in 0..(Len(draw_calls) - 1) :
                  IF Entry(draw_calls, h).instances = <<>>
                  THEN \A k \in draws \cup CallsOf(ctx_calls, "Buffer::update") :
                          ctx_calls[k].mesh # h
                  ELSE /\ Cardinality({k \in draws : ctx_calls[k].mesh = h}) = 1
                       /\ \A k \in draws :
                             ctx_calls[k].mesh = h =>
                                 /\ ctx_calls[k].arg.num_instances =
                                        Len(Entry(draw_calls, h).instances)
                                 /\ ctx_calls[k].arg.num_elements =
                                        Len(Entry(draw_calls, h).indices)

C6_Witness ==
    /\ last.op = "render"
    /\ Returned
    /\ Len(draw_calls) >= 2
    /\ \E h \in 0..(Len(draw_calls) - 1) : Entry(draw_calls, h).instances = <<>>
    /\ \E k \in CallsOf(ctx_calls, "draw") : ctx_calls[k].arg.num_instances = 2

Mutators ==
    {"add_instance", "set_x", "set_y", "set_z", "set_rotation", "set_scale",
     "set_color_multiplier"}

\* C7: after add_instance and after every setter of an instance, the
\* refresh flag of the mesh that owns the instance is true.
C7_MutationMarksDirty ==
    (last.op \in Mutators) => Entry(draw_calls, last.mesh).refresh_instances = TRUE

\* C8: a render that returns leaves no mesh with a true refresh flag and
\* leaves every instance list as it was: the same instances, with the same
\* fields, at the same indexes.
C8_RenderClearsDirty ==
    [][(last'.op = "render" /\ status' = "running") =>
          /\ Len(draw_calls') = Len(draw_calls)
          /\ \A k \in 1..Len(draw_calls) :
                /\ draw_calls'[k].refresh_instances = FALSE
                /\ draw_calls'[k].instances = draw_calls[k].instances]_vars

C8_Witness ==
    /\ last.op = "render"
    /\ Returned
    /\ CallsOf(ctx_calls, "Buffer::update") # {}
    /\ \E h \in WithInstances(draw_calls) :
          /\ Len(Entry(draw_calls, h).instances) = 2
          /\ InstanceAt(draw_calls, h, 1).rotation # F32Zero

\* C9: the instance add_instance(mesh, x, y) returns the index of has x() = x
\* and y() = y, rotation 0, scale 1, a white color multiplier and alpha 1.
C9_AddInstanceDefaults ==
    (last.op = "add_instance") =>
        LET inst == InstanceAt(draw_calls, last.mesh, last.ret)
        IN  /\ Instance_x(inst) = last.args[1]
            /\ Instance_y(inst) = last.args[2]
            /\ Instance_rotation(inst) = F32Zero
            /\ Instance_scale(inst) = F32One
            /\ Instance_color_multiplier(inst) = <<F32One, F32One, F32One>>
            /\ inst.alpha = F32One

C9_Witness ==
    /\ last.op = "add_instance"
    /\ last.ret = 1
    /\ last.mesh = 1

\* x is the f32 nearest to n / 255 (0 <= n <= 255): x = 0.0 for n = 0, and
\* otherwise |255 * m - n * 2^(-e)| <= 255 / 2, the difference formed from
\* the high and low 12 bits of m
NearestTo255th(x, n) ==
    IF n = 0 THEN x = F32Zero
    ELSE /\ x.m >= Pow2(MantBits - 1)
         /\ x.m < Pow2(MantBits)
         /\ x.e \in (-31)..(-23)
         /\ LET t == 255 * (x.m \div Pow2(12)) - n * Pow2(-x.e - 12)
            IN  /\ t \in (-300)..300
                /\ LET d == t * Pow2(12) + 255 * (x.m % Pow2(12))
                   IN  2 * d <= 255 /\ -2 * d <= 255

\* C10: for every u8 v, set_z(v) stores the f32 nearest to (255 - v) / 255,
\* which is in [0, 1], z() of the instance is then v, and a z() call that
\* follows the set_z(v) returns v.
C10_DepthRoundTrip ==
    [][/\ last'.op = "set_z" =>
             LET inst == InstanceAt(draw_calls', last'.mesh, last'.idx)
                 v    == last'.args[1]
             IN  /\ NearestTo255th(inst.position[3], U8_MAX - v)
                 /\ F32Le(F32Zero, inst.position[3])
                 /\ F32Le(inst.position[3], F32One)
                 /\ Instance_z(inst) = v
       /\ (last.op = "set_z" /\ last'.op = "z" /\ last'.mesh = last.mesh /\ last'.idx = last.idx)
             => last'.ret = last.args[1]]_vars

C10_Witness ==
    /\ last.op = "z"
    /\ last.ret = 254
    /\ InstanceAt(draw_calls, 0, 0).position[3] = [m |-> 8421505, e |-> -31]

\* a z() call on the instance the call before ran set_z(v) on
ZAfterSetZ(v) ==
    /\ last.op = "set_z"
    /\ last.args[1] = v
    /\ last'.op = "z"
    /\ last'.mesh = last.mesh
    /\ last'.idx = last.idx

\* C11 as stated: set_z(mesh, idx, 0) then z(mesh, idx) returns 255, and
\* set_z(mesh, idx, 255) then z(mesh, idx) returns 0.
C11_BoundarySwapped ==
    [][/\ ZAfterSetZ(0) => last'.ret = 255
       /\ ZAfterSetZ(255) => last'.ret = 0]_vars

\* C11 as amended: set_z(mesh, idx, 0) stores 1.0 and z(mesh, idx) then
\* returns 0; set_z(mesh, idx, 255) stores 0.0 and z(mesh, idx) then returns
\* 255.
C11_BoundaryRoundTrip ==
    [][/\ ZAfterSetZ(0) =>
             /\ InstanceAt(draw_calls, last.mesh, last.idx).position[3] = F32One
             /\ last'.ret = 0
       /\ ZAfterSetZ(255) =>
             /\ InstanceAt(draw_calls, last.mesh, last.idx).position[3] = F32Zero
             /\ last'.ret = 255]_vars

C11_Witness ==
    /\ last.op = "z"
    /\ last.ret = 0
    /\ ncalls > 2
    /\ InstanceAt(draw_calls, 0, 0).position[3] = F32One

(***************************************************************************)
(* Calls with a (Mesh, index) that names nothing.                          *)
(***************************************************************************)
RefOps ==
    {"add_instance", "x", "y", "z", "scale", "rotation", "color_multiplier",
     "set_x", "set_y", "set_z", "set_scale", "set_rotation", "set_color_multiplier"}

\* the reference of the call names nothing: the handle is past the registry,
\* or (but for add_instance, which takes no index) the index is past the
\* instances of the mesh
Dangling(op, h, i) ==
    IF h \notin 0..(Len(draw_calls) - 1) THEN TRUE
    ELSE op # "add_instance" /\ i \notin 0..(Len(Entry(draw_calls, h).instances) - 1)

InvalidReferenceClamped(op, h, i) ==
    /\ status = "running"
    /\ Dangling(op, h, i)
    /\ draw_calls # <<>>
    /\ draw_calls' = [draw_calls EXCEPT ![Len(draw_calls)].refresh_instances = TRUE]
    /\ last' = Call("invalid_reference", h, i, <<op>>, <<>>)
    /\ ctx_calls' = <<>>
    /\ UNCHANGED <<missing_bindings, camera_pan, camera_zoom, buffers, status, uploads, ncalls>>

\* a getter, a setter or add_instance called with such a reference: the
\* call reports an invalid reference and does nothing else
InvalidReference(op, h, i) ==
    /\ status = "running"
    /\ Dangling(op, h, i)
    /\ last' = Call("invalid_reference", h, i, <<op>>, <<>>)
    /\ ctx_calls' = <<>>
    /\ UNCHANGED <<draw_calls, missing_bindings, camera_pan, camera_zoom, buffers, status,
                   uploads, ncalls>>

\* the first handle past the registry, and for every mesh the first index
\* past its instances
FirstDangling ==
    {<<Len(draw_calls), 0>>} \cup
    {<<h, Len(Entry(draw_calls, h).instances)>> : h \in 0..(Len(draw_calls) - 1)}

Triangle == CHOOSE p \in Paths : p = "triangle"

NextRefs ==
    \/ \E c \in Colors, o \in Opacities : UploadPath(Triangle, c, o)
    \/ Render
    \/ \E p \in PanArgs : SetCameraPos(p[1], p[2])
    \/ \E h \in Handles, a \in XYArgs : AddInstance(h, a[1], a[2])
    \/ \E op \in RefOps, r \in FirstDangling : InvalidReference(op, r[1], r[2])

SpecRefs == Init /\ [][NextRefs]_vars

C14_TessellationFailureReported ==
    [][last'.op = "upload_path" =>
          /\ status' = "running"
          /\ \/ /\ Len(draw_calls') = Len(draw_calls) + 1
                /\ last'.ret = MeshOf(draw_calls')
             \/ UNCHANGED <<draw_calls, missing_bindings>>]_vars

(***************************************************************************)
(* Draw order.                                                             *)
(***************************************************************************)
\* the positions of the draws of a frame
Draws(calls) == CallsOf(calls, "draw")

\* C15: within a frame the draws are issued in registry order: of two meshes
\* that both have instances the one with the smaller handle is drawn first,
\* whatever the depth of the instances and whatever the order in which they
\* were added or changed.
C15_DrawsInRegistryOrder ==
    (Returned /\ last.op = "render") =>
        /\ \A h \in WithInstances(draw_calls) :
              \E k \in Draws(ctx_calls) : ctx_calls[k].mesh = h
        /\ \A k1, k2 \in Draws(ctx_calls) :
              ctx_calls[k1].mesh < ctx_calls[k2].mesh <=> k1 < k2

C15_Witness ==
    /\ Returned
    /\ last.op = "render"
    /\ Cardinality(Draws(ctx_calls)) = 2
    /\ \E k1, k2 \in Draws(ctx_calls) :
          k1 < k2 /\ ctx_calls[k1].mesh = 0 /\ ctx_calls[k2].mesh = 1

(***************************************************************************)
(* Index bound.                                                            *)
(***************************************************************************)
\* C16: in every reachable state every value of the index buffer of every
\* registry entry is smaller than the length of the vertex buffer of that
\* entry, the entries made by upload_buffers included.  Violated:
\* upload_buffers stores the buffers of its caller as they come.
C16_IndicesInBounds ==
    \A k \in 1..Len(draw_calls) :
        \A n \in 1..Len(draw_calls[k].indices) :
            draw_calls[k].indices[n] < Len(draw_calls[k].vertices)

(***************************************************************************)
(* Instance data of a draw.                                                *)
(***************************************************************************)
\* C17: no draw uses stale instance data: in every frame the instance buffer
\* bound for the draw of a mesh holds the current instance list of that
\* mesh.  Violated: a setter changes the list without marking the mesh, so
\* the next frame draws from the buffer of the frame before.
C17_NoStaleInstanceData ==
    (Returned /\ last.op = "render") =>
        \A k \in CallsOf(ctx_calls, "apply_bindings") :
            ctx_calls[k].arg.instance_data = Entry(draw_calls, ctx_calls[k].mesh).instances

(***************************************************************************)
(* Independence of the instance fields.                                    *)
(***************************************************************************)
Setters == {"set_x", "set_y", "set_z", "set_scale", "set_rotation", "set_color_multiplier"}

\* what the getter of the field of setter op returns for instance self
OwnField(op, self) ==
    CASE op = "set_x" -> Instance_x(self)
      [] op = "set_y" -> Instance_y(self)
      [] op = "set_z" -> Instance_z(self)
      [] op = "set_scale" -> Instance_scale(self)
      [] op = "set_rotation" -> Instance_rotation(self)
      [] op = "set_color_multiplier" -> Instance_color_multiplier(self)

\* what setter op was asked to write
Written(op, args) == IF op = "set_color_multiplier" THEN args ELSE args[1]

\* instance self with the field of setter op blanked, its other fields kept
OtherFields(op, self) ==
    CASE op = "set_x" -> [self EXCEPT !.position[1] = F32Zero]
      [] op = "set_y" -> [self EXCEPT !.position[2] = F32Zero]
      [] op = "set_z" -> [self EXCEPT !.position[3] = F32Zero]
      [] op = "set_scale" -> [self EXCEPT !.scale = F32Zero]
      [] op = "set_rotation" -> [self EXCEPT !.rotation = F32Zero]
      [] op = "set_color_multiplier" -> [self EXCEPT !.color = <<F32Zero, F32Zero, F32Zero>>]

\* C18: each setter changes only its own field of the one addressed
\* instance: the getter of that field then returns the written value (z
\* through the depth transform), every other field of the instance, alpha
\* included, and every other instance of every mesh stay as they were.
C18_SettersIndependent ==
    [][last'.op \in Setters =>
          LET h   == last'.mesh
              i   == last'.idx
              old == InstanceAt(draw_calls, h, i)
              new == InstanceAt(draw_calls', h, i)
          IN  /\ OwnField(last'.op, new) = Written(last'.op, last'.args)
              /\ OtherFields(last'.op, new) = OtherFields(last'.op, old)
              /\ draw_calls' = [draw_calls EXCEPT ![h + 1].instances[i + 1] = new]]_vars

C18_Witness ==
    /\ last.op = "set_y"
    /\ last.mesh = 0
    /\ last.idx = 1
    /\ Len(draw_calls[1].instances) = 2
    /\ Instance_y(draw_calls[1].instances[2]) \in SetArgs
    /\ Instance_y(draw_calls[1].instances[1]) \notin SetArgs
    /\ Instance_x(draw_calls[1].instances[2]) \notin SetArgs

(***************************************************************************)
(* Camera.                                                                 *)
(***************************************************************************)
\* C19: the camera starts at pan (0, 0) and zoom 1; set_camera_pos changes
\* only the pan and set_camera_zoom only the zoom, each to its argument, and
\* neither touches the registry or the bindings-pending flag; no other
\* operation changes the camera; every draw of a frame gets the uniforms
\* computed from the pan and zoom that were set last before the render.
C19_CameraOnlyBySetters ==
    [][/\ last.op = "new" => (camera_pan = <<F32Zero, F32Zero>> /\ camera_zoom = F32One)
       /\ last'.op = "set_camera_pos" =>
             /\ camera_pan' = last'.args
             /\ UNCHANGED <<camera_zoom, draw_calls, missing_bindings>>
       /\ last'.op = "set_camera_zoom" =>
             /\ camera_zoom' = last'.args[1]
             /\ UNCHANGED <<camera_pan, draw_calls, missing_bindings>>
       /\ last'.op \notin {"set_camera_pos", "set_camera_zoom"} =>
             UNCHANGED <<camera_pan, camera_zoom>>
       /\ last'.op = "render" =>
             \A k \in CallsOf(ctx_calls', "apply_uniforms") :
                 /\ ctx_calls'[k].arg.pan = camera_pan
                 /\ ctx_calls'[k].arg.zoom =
                        <<F32Div(camera_zoom, IntToF32(ScreenWidth)),
                          F32Div(camera_zoom, IntToF32(ScreenHeight))>>]_vars

C19_Witness ==
    /\ Returned
    /\ last.op = "render"
    /\ camera_pan \in PanArgs
    /\ camera_zoom \in ZoomArgs
    /\ \E k \in CallsOf(ctx_calls, "apply_uniforms") : ctx_calls[k].arg.pan = camera_pan

(***************************************************************************)
(* The bindings-pending flag and the bindings of the entries.              *)
(***************************************************************************)
\* C20: in every reachable state a false missing_bindings means that every
\* registry entry has bindings, and no render ends in the unwrap of the
\* bindings of an entry that has none.
C20_FlagMatchesEntries ==
    /\ ~missing_bindings => AllBound(draw_calls)
    /\ ~(last.op = "render" /\ status = "panicked")

C20_Witness ==
    /\ Returned
    /\ last.op = "render"
    /\ ~missing_bindings
    /\ Len(draw_calls) = 2
    /\ AllBound(draw_calls)
    /\ CallsOf(ctx_calls, "draw") # {}
    /\ Creations(ctx_calls) # {}
    /\ \A k \in Creations(ctx_calls) : ctx_calls[k].mesh = 1

====
